---- MODULE Spec2Model ----
(***************************************************************************)
(* Model of art_tactile_transform.core.mesh_generation (calculate_normals, *)
(* heightmap_to_stl) and art_tactile_transform.core.validation             *)
(* (validate_mesh).                                                        *)
(*                                                                         *)
(* Numbers.  Python floats are modelled as exact fixed-point rationals:    *)
(*   heights h          in quarters        (h = data / HDen)               *)
(*   scale parameters   in tenths of a mm  (value / PDen)                  *)
(*   z coordinates      in 1/40 mm         (value / ZDen, ZDen = HDen*PDen)*)
(* For these inputs every coordinate is a multiple of 0.025 mm, so the     *)
(* float error (about 1e-16) can never move a value across a rounding      *)
(* boundary of the ".3f" / ".6f" conversions, which are modelled digit by  *)
(* digit.                                                                  *)
(*                                                                         *)
(* Text.  A file is a sequence of lines; a line is a record                *)
(*   [kw |-> keyword(s), name |-> solid name or "", nums |-> number tokens]*)
(* and a number token is [neg, ip, frac]: the sign, the integer part and   *)
(* the sequence of fractional digits that were printed.                    *)
(***************************************************************************)
EXTENDS Integers, Sequences, FiniteSets, TLC

\* ------------------------------------------------------------------------
\* Bounds of the model
\* ------------------------------------------------------------------------
MaxR == 3
MaxC == 3
MaxCalls == 2

\* ------------------------------------------------------------------------
\* Fixed-point denominators
\* ------------------------------------------------------------------------
HDen == 4
PDen == 10
ZDen == HDen * PDen

\* ------------------------------------------------------------------------
\* Generic helpers
\* ------------------------------------------------------------------------
Abs(x) == IF x < 0 THEN 0 - x ELSE x

RECURSIVE Pow10(_)
Pow10(d) == IF d = 0 THEN 1 ELSE 10 * Pow10(d - 1)

RECURSIVE Product(_)
Product(s) == IF s = <<>> THEN 1 ELSE Head(s) * Product(Tail(s))

\* the d decimal digits of n, most significant first, zero padded
Digits(n, d) == [k \in 1..d |-> (n \div Pow10(d - k)) % 10]

\* ------------------------------------------------------------------------
\* Python's f"{x:.<d>f}" for the exact rational x = v / q:
\* round half to even to d decimals; a negative value keeps its sign even
\* when it rounds to zero.
\* ------------------------------------------------------------------------
RoundHalfEven(n, q) ==
    LET fl == n \div q
        r2 == 2 * (n % q)
    IN  IF r2 > q \/ (r2 = q /\ fl % 2 = 1) THEN fl + 1 ELSE fl

Fmt(v, q, d) ==
    LET n == RoundHalfEven(Abs(v) * Pow10(d), q)
    IN  [neg |-> v < 0, ip |-> n \div Pow10(d), frac |-> Digits(n % Pow10(d), d)]

\* a literal piece of text such as "0.0" or "-1.0" inside an f-string
Lit(neg, ip, frac) == [neg |-> neg, ip |-> ip, frac |-> frac]

\* ------------------------------------------------------------------------
\* Rendering a unit-vector component c / sqrt(L) at d decimals, as the
\* float computation "normal / length" followed by ".<d>f" does.  The
\* intermediate numbers exceed 32 bits, so they are kept as sequences of
\* base-100 digits (most significant first): long division by L, then the
\* schoolbook square root, one decimal digit of the root per base-100 digit.
\* ------------------------------------------------------------------------
RECURSIVE Pairs(_)
Pairs(n) == IF n < 100 THEN <<n>> ELSE Append(Pairs(n \div 100), n % 100)

\* digits of floor(ds / L) and the remainder, from remainder r on
RECURSIVE LongDiv(_, _, _)
LongDiv(ds, L, r) ==
    IF ds = <<>> THEN [q |-> <<>>, r |-> r]
    ELSE LET cur  == r * 100 + Head(ds)
             rest == LongDiv(Tail(ds), L, cur % L)
         IN  [q |-> <<cur \div L>> \o rest.q, r |-> rest.r]

\* floor(sqrt(ds)) and the remainder ds - root^2
RECURSIVE SqrtPairs(_, _, _)
SqrtPairs(ds, root, rem) ==
    IF ds = <<>> THEN [root |-> root, rem |-> rem]
    ELSE LET cur == rem * 100 + Head(ds)
             x   == CHOOSE y \in 0..9 :
                        /\ (20 * root + y) * y <= cur
                        /\ y = 9 \/ (20 * root + y + 1) * (y + 1) > cur
         IN  SqrtPairs(Tail(ds), 10 * root + x, cur - (20 * root + x) * x)

\* round(10^d * c / sqrt(L)) for 0 <= c <= sqrt(L), ties to even:
\* the largest n with (2n - 1)^2 * L <= 4 * 10^(2d) * c^2
UnitRound(c, L, d) ==
    LET quot == LongDiv(Pairs(4 * c * c) \o [k \in 1..d |-> 0], L, 0)
        sq   == SqrtPairs(quot.q, 0, 0)
        n    == (sq.root + 1) \div 2
        tie  == sq.root % 2 = 1 /\ sq.rem = 0 /\ quot.r = 0
    IN  IF tie /\ n % 2 = 1 THEN n - 1 ELSE n

\* ------------------------------------------------------------------------
\* IEEE-754 values that matter for the printed sign: v is the exact value,
\* s the sign bit (so that -0.0 is [v |-> 0, s |-> TRUE]).
\* ------------------------------------------------------------------------
F(x) == [v |-> x, s |-> x < 0]
FMul(x, y) == [v |-> x.v * y.v, s |-> x.s # y.s]
FSub(x, y) ==
    LET d == x.v - y.v
    IN  [v |-> d,
         s |-> IF d # 0 THEN d < 0 ELSE IF x.v # 0 THEN FALSE ELSE x.s /\ ~y.s]

\* a bug to compare with: the operands of the cross product are exchanged
CrossExchanged(a, b) ==
    << FSub(FMul(b[2], a[3]), FMul(b[3], a[2])),
       FSub(FMul(b[3], a[1]), FMul(b[1], a[3])),
       FSub(FMul(b[1], a[2]), FMul(b[2], a[1])) >>

\* np.cross for two 3-vectors
Cross(a, b) ==
    << FSub(FMul(a[2], b[3]), FMul(a[3], b[2])),
       FSub(FMul(a[3], b[1]), FMul(a[1], b[3])),
       FSub(FMul(a[1], b[2]), FMul(a[2], b[1])) >>

\* squared np.linalg.norm
NormSq(n) == n[1].v * n[1].v + n[2].v * n[2].v + n[3].v * n[3].v

\* a bug to compare with: the edge vectors take the heights, not their
\* differences from z00
calculate_normals_no_difference(z00, z10, z01, z11, i, j, pixel_scale) ==
    LET ps == pixel_scale * HDen
        v1 == << F(ps), F(0), F(z10) >>
        v2 == << F(0), F(ps), F(z01) >>
        normal == Cross(v1, v2)
        len2 == NormSq(normal)
    IN  IF len2 > 0
        THEN [n |-> normal, len2 |-> len2]
        ELSE [n |-> << F(0), F(0), F(1) >>, len2 |-> 1]

\* a bug to compare with: the length is taken over x and y only
calculate_normals_xy_length(z00, z10, z01, z11, i, j, pixel_scale) ==
    LET ps == pixel_scale * HDen
        v1 == << F(ps), F(0), F(z10 - z00) >>
        v2 == << F(0), F(ps), F(z01 - z00) >>
        normal == Cross(v1, v2)
        len2 == normal[1].v * normal[1].v + normal[2].v * normal[2].v
    IN  IF len2 > 0
        THEN [n |-> normal, len2 |-> len2]
        ELSE [n |-> << F(0), F(0), F(1) >>, len2 |-> 1]

\* calculate_normals: heights in 1/ZDen mm, pixel_scale in 1/PDen mm.
\* The result [n, len2] stands for the vector n / sqrt(len2).
calculate_normals(z00, z10, z01, z11, i, j, pixel_scale) ==
    LET ps == pixel_scale * HDen
        v1 == << F(ps), F(0), F(z10 - z00) >>
        v2 == << F(0), F(ps), F(z01 - z00) >>
        normal == Cross(v1, v2)
        len2 == NormSq(normal)
    IN  IF len2 > 0
        THEN [n |-> normal, len2 |-> len2]
        ELSE [n |-> << F(0), F(0), F(1) >>, len2 |-> 1]

\* f"{normal[k]:.6f}"
FmtNormal(normal, k) ==
    LET c == normal.n[k]
        m == UnitRound(Abs(c.v), normal.len2, 6)
    IN  [neg |-> c.s, ip |-> m \div Pow10(6), frac |-> Digits(m % Pow10(6), 6)]

\* ------------------------------------------------------------------------
\* Inputs: numpy arrays and scale parameters
\* ------------------------------------------------------------------------
\* heightmap.ndim, heightmap.size
ndim(hm) == Len(hm.shape)
size(hm) == Product(hm.shape)

\* an R x C array whose entries (in quarters) follow a linear pattern
PatternGrid(R, C, seed) ==
    [shape |-> <<R, C>>,
     data  |-> [r \in 1..R |-> [c \in 1..C |->
                 ((seed[1] * (r - 1) + seed[2] * (c - 1) + seed[3]) % 5) + seed[4]]]]

\* uniform 0.5; [[0.0,1.0],[0.5,0.25]] continued; the same rising to 1.25;
\* a grid that goes down to -0.25
Seeds == { <<0, 0, 2, 0>>, <<2, 4, 0, 0>>, <<2, 4, 0, 1>>, <<1, 3, 1, 0 - 1>> }

Grids == { PatternGrid(R, C, seed) : R \in 1..MaxR, C \in 1..MaxC, seed \in Seeds }

\* np.array([]), np.array([1, 2, 3]), np.zeros((0, 2)), np.zeros((2, 2, 2))
OtherArrays == { [shape |-> sh, data |-> <<>>] :
                   sh \in { <<0>>, <<3>>, <<0, 2>>, <<2, 2, 2>> } }

Heightmaps == Grids \cup OtherArrays

Config(mn, mx, base, scale) ==
    [min_height_mm |-> mn, max_height_mm |-> mx,
     base_thickness_mm |-> base, pixel_scale_mm |-> scale]

\* the defaults (0.2, 2.0, 1.0, 0.2); (0.1, 3.0, 1.0, 0.5); inverted bounds
\* (2.0, 1.0, 1.0, 0.2); zero minimum; zero base; zero pixel scale
Configs == { Config(2, 20, 10, 2), Config(1, 30, 10, 5), Config(20, 10, 10, 2),
             Config(0, 20, 10, 2), Config(2, 20, 0, 2), Config(2, 20, 10, 0) }

\* ------------------------------------------------------------------------
\* File system
\* ------------------------------------------------------------------------
Paths == { "out.stl", "models/out.stl" }
Parent(p) == IF p = "models/out.stl" THEN "models" ELSE "."

Ln(kw, name, nums) == [kw |-> kw, name |-> name, nums |-> nums]

NoFile == [exists |-> FALSE, content |-> <<>>]

\* what an earlier run may have left behind at a path
StaleText == << Ln("solid", "old_model", <<>>), Ln("endsolid", "old_model", <<>>) >>

\* a bug to compare with: the file is opened without truncating it
OpenForAppend(file) == [exists |-> TRUE, content |-> file.content]

\* open(output_path, "w"): create or truncate
OpenForWrite(file) == [exists |-> TRUE, content |-> <<>>]

\* f.write(...) of some lines
Write(file, lines) == [file EXCEPT !.content = file.content \o lines]

\* ------------------------------------------------------------------------
\* heightmap_to_stl: the text it writes
\* ------------------------------------------------------------------------
\* a bug to compare with: a header that does not begin with "solid"
HeaderCapitalised == Ln("Solid", "tactile_model", <<>>)

Header == Ln("solid", "tactile_model", <<>>)
Trailer == Ln("endsolid", "tactile_model", <<>>)

\* a bug to compare with: the facet block lacks its "endloop" line
FacetWithoutEndloop(normal, va, vb, vc) ==
    << Ln("facet normal", "", normal),
       Ln("outer loop", "", <<>>),
       Ln("vertex", "", va),
       Ln("vertex", "", vb),
       Ln("vertex", "", vc),
       Ln("endfacet", "", <<>>) >>

\* one facet: normal line, outer loop, three vertex lines, endloop, endfacet
Facet(normal, va, vb, vc) ==
    << Ln("facet normal", "", normal),
       Ln("outer loop", "", <<>>),
       Ln("vertex", "", va),
       Ln("vertex", "", vb),
       Ln("vertex", "", vc),
       Ln("endloop", "", <<>>),
       Ln("endfacet", "", <<>>) >>

\* a bug to compare with: the base thickness is not added
normalized_heights_no_base(hm, c) ==
    [r \in 1..hm.shape[1] |-> [k \in 1..hm.shape[2] |->
        hm.data[r][k] * (c.max_height_mm - c.min_height_mm)
          + HDen * c.min_height_mm]]

\* heightmap * (max_height_mm - min_height_mm) + min_height_mm + base_thickness_mm
normalized_heights(hm, c) ==
    [r \in 1..hm.shape[1] |-> [k \in 1..hm.shape[2] |->
        hm.data[r][k] * (c.max_height_mm - c.min_height_mm)
          + HDen * c.min_height_mm + HDen * c.base_thickness_mm]]

\* a bug to compare with: the second triangle is cut along the other diagonal
TopFacetOtherDiagonal(hm, c, i, j, tri) ==
    LET nh  == normalized_heights(hm, c)
        z00 == nh[i + 1][j + 1]
        z10 == nh[i + 2][j + 1]
        z01 == nh[i + 1][j + 2]
        z11 == nh[i + 2][j + 2]
        x0  == i * c.pixel_scale_mm
        x1  == (i + 1) * c.pixel_scale_mm
        y0  == j * c.pixel_scale_mm
        y1  == (j + 1) * c.pixel_scale_mm
        normal == calculate_normals(z00, z10, z01, z11, i, j, c.pixel_scale_mm)
        ntoks == << FmtNormal(normal, 1), FmtNormal(normal, 2), FmtNormal(normal, 3) >>
        V(x, y, z) == << Fmt(x, PDen, 3), Fmt(y, PDen, 3), Fmt(z, ZDen, 3) >>
    IN  IF tri = 1
        THEN Facet(ntoks, V(x0, y0, z00), V(x1, y0, z10), V(x1, y1, z11))
        ELSE Facet(ntoks, V(x0, y0, z00), V(x1, y0, z10), V(x0, y1, z01))

\* the facet of cell (i, j) (0-based), tri = 1 or 2
TopFacet(hm, c, i, j, tri) ==
    LET nh  == normalized_heights(hm, c)
        z00 == nh[i + 1][j + 1]
        z10 == nh[i + 2][j + 1]
        z01 == nh[i + 1][j + 2]
        z11 == nh[i + 2][j + 2]
        x0  == i * c.pixel_scale_mm
        x1  == (i + 1) * c.pixel_scale_mm
        y0  == j * c.pixel_scale_mm
        y1  == (j + 1) * c.pixel_scale_mm
        normal == calculate_normals(z00, z10, z01, z11, i, j, c.pixel_scale_mm)
        ntoks == << FmtNormal(normal, 1), FmtNormal(normal, 2), FmtNormal(normal, 3) >>
        V(x, y, z) == << Fmt(x, PDen, 3), Fmt(y, PDen, 3), Fmt(z, ZDen, 3) >>
    IN  IF tri = 1
        THEN Facet(ntoks, V(x0, y0, z00), V(x1, y0, z10), V(x1, y1, z11))
        ELSE Facet(ntoks, V(x0, y0, z00), V(x1, y1, z11), V(x0, y1, z01))

\* a bug to compare with: the base triangles wind the other way round
BaseFacetReversed(hm, c, tri) ==
    LET max_x  == Fmt((hm.shape[1] - 1) * c.pixel_scale_mm, PDen, 3)
        max_y  == Fmt((hm.shape[2] - 1) * c.pixel_scale_mm, PDen, 3)
        base_z == Fmt(c.base_thickness_mm, PDen, 3)
        zero   == Lit(FALSE, 0, <<0>>)
        down   == << Lit(FALSE, 0, <<0>>), Lit(FALSE, 0, <<0>>), Lit(TRUE, 1, <<0>>) >>
    IN  IF tri = 1
        THEN Facet(down, <<zero, zero, base_z>>, <<max_x, zero, base_z>>,
                         <<max_x, max_y, base_z>>)
        ELSE Facet(down, <<zero, zero, base_z>>, <<max_x, max_y, base_z>>,
                         <<zero, max_y, base_z>>)

\* a bug to compare with: the base plate is put at z = 0
BaseFacetAtZero(hm, c, tri) ==
    LET max_x  == Fmt((hm.shape[1] - 1) * c.pixel_scale_mm, PDen, 3)
        max_y  == Fmt((hm.shape[2] - 1) * c.pixel_scale_mm, PDen, 3)
        base_z == Fmt(0, PDen, 3)
        zero   == Lit(FALSE, 0, <<0>>)
        down   == << Lit(FALSE, 0, <<0>>), Lit(FALSE, 0, <<0>>), Lit(TRUE, 1, <<0>>) >>
    IN  IF tri = 1
        THEN Facet(down, <<zero, zero, base_z>>, <<max_x, max_y, base_z>>,
                         <<max_x, zero, base_z>>)
        ELSE Facet(down, <<zero, zero, base_z>>, <<zero, max_y, base_z>>,
                         <<max_x, max_y, base_z>>)

\* the base rectangle, tri = 1 or 2
BaseFacet(hm, c, tri) ==
    LET max_x  == Fmt((hm.shape[1] - 1) * c.pixel_scale_mm, PDen, 3)
        max_y  == Fmt((hm.shape[2] - 1) * c.pixel_scale_mm, PDen, 3)
        base_z == Fmt(c.base_thickness_mm, PDen, 3)
        zero   == Lit(FALSE, 0, <<0>>)
        down   == << Lit(FALSE, 0, <<0>>), Lit(FALSE, 0, <<0>>), Lit(TRUE, 1, <<0>>) >>
    IN  IF tri = 1
        THEN Facet(down, <<zero, zero, base_z>>, <<max_x, max_y, base_z>>,
                         <<max_x, zero, base_z>>)
        ELSE Facet(down, <<zero, zero, base_z>>, <<zero, max_y, base_z>>,
                         <<max_x, max_y, base_z>>)

\* ------------------------------------------------------------------------
\* State
\* ------------------------------------------------------------------------
VARIABLES
    heightmap,    \* the array passed to heightmap_to_stl
    cfg,          \* min_height_mm, max_height_mm, base_thickness_mm, pixel_scale_mm
    output_path,  \* the path of the call in progress (or of the last call)
    fs,           \* path -> [exists, content]
    dirs,         \* the directories that exist
    pc,           \* position of the call: idle, check, open, top, base, trailer
    i, j, tri,    \* loop position inside the "with open" block
    result,       \* outcome of the last call
    calls,        \* number of calls started
    log,          \* the calls that returned normally: inputs, path and text
    impl,         \* the module whose code runs: "core" (core.mesh_generation
                  \* and cli) or "main" (art_tactile_transform.main)
    vpc,          \* position of validate_mesh: idle, exists, open, size, stat
    stl_path,     \* the path validate_mesh was called with
    vtext,        \* the content validate_mesh read
    report,       \* errors, warnings, triangle_count and file_size so far
    vresult,      \* outcome of validate_mesh: none, returned, or the exception
    existed,      \* whether the existence check at the start of validate_mesh passed
    changes,      \* number of changes made by the other process
    gpc,          \* position of generate_3d
    gresult       \* outcome of generate_3d

\* the state of validate_mesh and of generate_3d
vvars == << vpc, stl_path, vtext, report, vresult, existed, changes >>
gvars == << gpc, gresult >>

vars == << heightmap, cfg, output_path, fs, dirs, pc, i, j, tri, result, calls, log,
           impl, vvars, gvars >>

\* how a call of validate_mesh ended: kind is none, returned or the exception
\* raised, with its message and the path the message names
NoResult == [kind |-> "none", message |-> "", path |-> ""]
ReturnedReport == [kind |-> "returned", message |-> "", path |-> ""]
Raised(kind, message, path) == [kind |-> kind, message |-> message, path |-> path]

\* validate_mesh has not been called
NoReport ==
    [valid |-> FALSE, errors |-> <<>>, warnings |-> <<>>, triangle_count |-> 0,
     file_size |-> 0]
ValidateIdle ==
    /\ vpc = "idle"
    /\ stl_path = "out.stl"
    /\ vtext = <<>>
    /\ report = NoReport
    /\ vresult = NoResult
    /\ existed = FALSE
    /\ changes = 0

\* how a call of generate_3d ended: kind is none, returned or the exception
\* raised, with its message and what caused it
NoOutcome == [kind |-> "none", message |-> "", cause |-> ""]
Outcome(kind, message, cause) == [kind |-> kind, message |-> message, cause |-> cause]

\* generate_3d has not been called
GenerateIdle ==
    /\ gpc = "idle"
    /\ gresult = NoOutcome

\* the exceptions of open and write
NoDirMsg == "FileNotFoundError: [Errno 2] No such file or directory"
IOErrors == { "IOError", NoDirMsg }

EmptyMsg == "ValueError: Heightmap cannot be empty"
Not2DMsg == "ValueError: Heightmap must be a 2D array"
ValueErrors == { EmptyMsg, Not2DMsg }

Init ==
    /\ heightmap \in Heightmaps
    /\ cfg \in Configs
    /\ output_path = "out.stl"
    /\ \/ /\ dirs = { "." }
          /\ fs = [p \in Paths |-> NoFile]
       \/ /\ dirs = { ".", "models" }
          /\ fs = [p \in Paths |-> [exists |-> TRUE, content |-> StaleText]]
    /\ pc = "idle"
    /\ i = 0 /\ j = 0 /\ tri = 1
    /\ result = "none"
    /\ calls = 0
    /\ log = <<>>
    /\ impl = "core"
    /\ ValidateIdle
    /\ GenerateIdle

\* heightmap_to_stl(heightmap, p, **cfg) is called.  A ValueError is caught by
\* the caller, which goes on calling (the tests do, under pytest.raises); an
\* I/O error is not: it ends the run (cli.py wraps it and main exits with 1)
Call(p) ==
    /\ pc = "idle"
    /\ calls < MaxCalls
    /\ result \notin IOErrors
    /\ calls' = calls + 1
    /\ output_path' = p
    /\ pc' = "check"
    /\ result' = "none"
    /\ impl' = "core"
    /\ UNCHANGED << heightmap, cfg, fs, dirs, i, j, tri, log, vvars, gvars >>

\* a bug to compare with: the dimension check comes before the emptiness check
RaiseValueErrorDimensionFirst ==
    /\ pc = "check"
    /\ size(heightmap) = 0 \/ ndim(heightmap) # 2
    /\ result' = IF ndim(heightmap) # 2 THEN Not2DMsg ELSE EmptyMsg
    /\ pc' = "idle"
    /\ UNCHANGED << heightmap, cfg, output_path, fs, dirs, i, j, tri, calls, log >>
    /\ UNCHANGED << impl, vvars, gvars >>

\* a bug to compare with: the checks come after the directory is created
\* and the file is opened
RaiseValueErrorAfterOpen ==
    /\ pc = "check"
    /\ size(heightmap) = 0 \/ ndim(heightmap) # 2
    /\ dirs' = dirs \cup { Parent(output_path) }
    /\ fs' = [fs EXCEPT ![output_path] = OpenForWrite(@)]
    /\ result' = IF size(heightmap) = 0 THEN EmptyMsg ELSE Not2DMsg
    /\ pc' = "idle"
    /\ UNCHANGED << heightmap, cfg, output_path, i, j, tri, calls, log >>
    /\ UNCHANGED << impl, vvars, gvars >>

\* the two checks at the top of the function
RaiseValueError ==
    /\ pc = "check"
    /\ size(heightmap) = 0 \/ ndim(heightmap) # 2
    /\ result' = IF size(heightmap) = 0 THEN EmptyMsg ELSE Not2DMsg
    /\ pc' = "idle"
    /\ UNCHANGED << heightmap, cfg, output_path, fs, dirs, i, j, tri, calls, log >>
    /\ UNCHANGED << impl, vvars, gvars >>

\* checks passed; Path(output_path).parent.mkdir(parents=True, exist_ok=True)
MakeParent ==
    /\ pc = "check"
    /\ size(heightmap) # 0 /\ ndim(heightmap) = 2
    /\ dirs' = dirs \cup { Parent(output_path) }
    /\ pc' = "open"
    /\ UNCHANGED << heightmap, cfg, output_path, fs, i, j, tri, result, calls, log >>
    /\ UNCHANGED << impl, vvars, gvars >>

\* with open(output_path, "w") as f: f.write("solid tactile_model\n")
OpenAndWriteHeader ==
    /\ pc = "open"
    /\ fs' = [fs EXCEPT ![output_path] = Write(OpenForWrite(@), <<Header>>)]
    /\ i' = 0 /\ j' = 0 /\ tri' = 1
    /\ pc' = IF heightmap.shape[1] - 1 > 0 /\ heightmap.shape[2] - 1 > 0
             THEN "top" ELSE "base"
    /\ UNCHANGED << heightmap, cfg, output_path, dirs, result, calls, log >>
    /\ UNCHANGED << impl, vvars, gvars >>

\* a bug to compare with: only the first triangle of each cell is written
WriteTopFacetOncePerCell ==
    /\ pc = "top"
    /\ fs' = [fs EXCEPT ![output_path] = Write(@, TopFacet(heightmap, cfg, i, j, 1))]
    /\ tri' = 1
    /\ IF j + 1 < heightmap.shape[2] - 1
       THEN j' = j + 1 /\ UNCHANGED << i, pc >>
       ELSE /\ j' = 0
            /\ i' = i + 1
            /\ pc' = IF i + 1 < heightmap.shape[1] - 1 THEN "top" ELSE "base"
    /\ UNCHANGED << heightmap, cfg, output_path, dirs, result, calls, log >>
    /\ UNCHANGED << impl, vvars, gvars >>

\* one facet of the double loop over the cells
WriteTopFacet ==
    /\ pc = "top"
    /\ fs' = [fs EXCEPT ![output_path] = Write(@, TopFacet(heightmap, cfg, i, j, tri))]
    /\ IF tri = 1
       THEN tri' = 2 /\ UNCHANGED << i, j, pc >>
       ELSE /\ tri' = 1
            /\ IF j + 1 < heightmap.shape[2] - 1
               THEN j' = j + 1 /\ UNCHANGED << i, pc >>
               ELSE /\ j' = 0
                    /\ i' = i + 1
                    /\ pc' = IF i + 1 < heightmap.shape[1] - 1 THEN "top" ELSE "base"
    /\ UNCHANGED << heightmap, cfg, output_path, dirs, result, calls, log >>
    /\ UNCHANGED << impl, vvars, gvars >>

\* one facet of the base plate
WriteBaseFacet ==
    /\ pc = "base"
    /\ fs' = [fs EXCEPT ![output_path] = Write(@, BaseFacet(heightmap, cfg, tri))]
    /\ IF tri = 1 THEN tri' = 2 /\ pc' = pc ELSE tri' = 1 /\ pc' = "trailer"
    /\ UNCHANGED << heightmap, cfg, output_path, dirs, i, j, result, calls, log >>
    /\ UNCHANGED << impl, vvars, gvars >>

\* f.write("endsolid tactile_model\n"); the file is closed; return
WriteTrailer ==
    /\ pc = "trailer"
    /\ fs' = [fs EXCEPT ![output_path] = Write(@, <<Trailer>>)]
    /\ log' = Append(log, [impl |-> impl, heightmap |-> heightmap, cfg |-> cfg,
                           path |-> output_path,
                           text |-> fs'[output_path].content])
    /\ result' = "ok"
    /\ pc' = "idle"
    /\ UNCHANGED << heightmap, cfg, output_path, dirs, i, j, tri, calls >>
    /\ UNCHANGED << impl, vvars, gvars >>

\* a write inside the "with" block fails: the file is closed as it is and
\* the exception leaves the function
WriteFails ==
    /\ pc \in { "top", "base", "trailer" }
    /\ result' = "IOError"
    /\ pc' = "idle"
    /\ UNCHANGED << heightmap, cfg, output_path, fs, dirs, i, j, tri, calls, log >>
    /\ UNCHANGED << impl, vvars, gvars >>

Next ==
    \/ \E p \in Paths : Call(p)
    \/ RaiseValueError
    \/ MakeParent
    \/ OpenAndWriteHeader
    \/ WriteTopFacet
    \/ WriteBaseFacet
    \/ WriteTrailer
    \/ WriteFails

Spec == Init /\ [][Next]_vars

\* ------------------------------------------------------------------------
\* The heightmap_to_stl of art_tactile_transform.main: no checks of the
\* array and no mkdir; from the top-surface loop on its text is the text of
\* core.mesh_generation, line for line
\* ------------------------------------------------------------------------
TooFewMsg == "ValueError: not enough values to unpack (expected 2, got 1)"
TooManyMsg == "ValueError: too many values to unpack (expected 2)"

\* the inputs of the comparison: every array, scales above zero
InitMain ==
    /\ heightmap \in Heightmaps
    /\ cfg \in { Config(2, 20, 10, 2), Config(1, 30, 10, 5) }
    /\ output_path = "out.stl"
    /\ \/ /\ dirs = { "." }
          /\ fs = [p \in Paths |-> NoFile]
       \/ /\ dirs = { ".", "models" }
          /\ fs = [p \in Paths |-> [exists |-> TRUE, content |-> StaleText]]
    /\ pc = "idle"
    /\ i = 0 /\ j = 0 /\ tri = 1
    /\ result = "none"
    /\ calls = 0
    /\ log = <<>>
    /\ impl = "core"
    /\ ValidateIdle
    /\ GenerateIdle

\* main.heightmap_to_stl(heightmap, p, **cfg) is called
CallMain(p) ==
    /\ pc = "idle"
    /\ calls < MaxCalls
    /\ result \notin IOErrors
    /\ calls' = calls + 1
    /\ output_path' = p
    /\ pc' = "unpack"
    /\ result' = "none"
    /\ impl' = "main"
    /\ UNCHANGED << heightmap, cfg, fs, dirs, i, j, tri, log, vvars, gvars >>

\* height, width = heightmap.shape with an array that is not 2-D
RaiseUnpackError ==
    /\ pc = "unpack"
    /\ ndim(heightmap) # 2
    /\ result' = IF ndim(heightmap) < 2 THEN TooFewMsg ELSE TooManyMsg
    /\ pc' = "idle"
    /\ UNCHANGED << heightmap, cfg, output_path, fs, dirs, i, j, tri, calls, log >>
    /\ UNCHANGED << impl, vvars, gvars >>

\* open(output_path, "w") in a directory that does not exist
MainOpenFails ==
    /\ pc = "unpack"
    /\ ndim(heightmap) = 2
    /\ Parent(output_path) \notin dirs
    /\ result' = NoDirMsg
    /\ pc' = "idle"
    /\ UNCHANGED << heightmap, cfg, output_path, fs, dirs, i, j, tri, calls, log >>
    /\ UNCHANGED << impl, vvars, gvars >>

\* a bug to compare with: the header of the first version, "solid model"
MainOpenAndWriteHeaderOldName ==
    /\ pc = "unpack"
    /\ ndim(heightmap) = 2
    /\ Parent(output_path) \in dirs
    /\ fs' = [fs EXCEPT ![output_path] =
                 Write(OpenForWrite(@), << Ln("solid", "model", <<>>) >>)]
    /\ i' = 0 /\ j' = 0 /\ tri' = 1
    /\ pc' = IF heightmap.shape[1] - 1 > 0 /\ heightmap.shape[2] - 1 > 0
             THEN "top" ELSE "base"
    /\ UNCHANGED << heightmap, cfg, output_path, dirs, result, calls, log >>
    /\ UNCHANGED << impl, vvars, gvars >>

\* the shape unpacks; with open(output_path, "w") as f: the header is written
MainOpenAndWriteHeader ==
    /\ pc = "unpack"
    /\ ndim(heightmap) = 2
    /\ Parent(output_path) \in dirs
    /\ fs' = [fs EXCEPT ![output_path] = Write(OpenForWrite(@), << Header >>)]
    /\ i' = 0 /\ j' = 0 /\ tri' = 1
    /\ pc' = IF heightmap.shape[1] - 1 > 0 /\ heightmap.shape[2] - 1 > 0
             THEN "top" ELSE "base"
    /\ UNCHANGED << heightmap, cfg, output_path, dirs, result, calls, log >>
    /\ UNCHANGED << impl, vvars, gvars >>

\* the two implementations, called one after the other
NextMain ==
    \/ \E p \in Paths : Call(p)
    \/ RaiseValueError
    \/ MakeParent
    \/ OpenAndWriteHeader
    \/ \E p \in Paths : CallMain(p)
    \/ RaiseUnpackError
    \/ MainOpenFails
    \/ MainOpenAndWriteHeader
    \/ WriteTopFacet
    \/ WriteBaseFacet
    \/ WriteTrailer
    \/ WriteFails

SpecMain == InitMain /\ [][NextMain]_vars

\* ------------------------------------------------------------------------
\* generate_3d (main.py, and cli.py for the core module): environment,
\* image, mkdir, depth query, image processing, heightmap_to_stl
\* ------------------------------------------------------------------------
FailedMsg == "Failed to generate 3D model"

\* what the image processing can yield: resolution x resolution values
\* of pixel / 255
GenHeightmaps ==
    { g \in Grids : /\ g.shape[1] = g.shape[2]
                    /\ \A r \in 1..g.shape[1], c \in 1..g.shape[2] :
                          g.data[r][c] \in 0..HDen }

InitGenerate ==
    /\ heightmap \in GenHeightmaps
    /\ cfg \in { Config(2, 20, 10, 2), Config(1, 30, 10, 5) }
    /\ output_path = "out.stl"
    /\ \/ /\ dirs = { "." }
          /\ fs = [p \in Paths |-> NoFile]
       \/ /\ dirs = { ".", "models" }
          /\ fs = [p \in Paths |-> [exists |-> TRUE, content |-> StaleText]]
    /\ pc = "idle"
    /\ i = 0 /\ j = 0 /\ tri = 1
    /\ result = "none"
    /\ calls = 0
    /\ log = <<>>
    /\ impl = "core"
    /\ ValidateIdle
    /\ GenerateIdle

\* what generate_3d leaves alone until it calls heightmap_to_stl
svars == << heightmap, cfg, fs, pc, i, j, tri, result, calls, log, vvars >>

\* generate_3d() of module m is called with OUTPUT_PATH = p in the environment
GenerateCall(m, p) ==
    /\ gpc = "idle"
    /\ calls < MaxCalls
    /\ result \notin IOErrors
    /\ impl' = m
    /\ output_path' = p
    /\ gpc' = "env"
    /\ gresult' = NoOutcome
    /\ UNCHANGED << dirs, svars >>

\* MODEL_NAME, IMAGE_PATH or OUTPUT_PATH is not set
RaiseMissingSetting ==
    /\ gpc = "env"
    /\ gresult' = Outcome("ValueError",
                          "MODEL_NAME, IMAGE_PATH and OUTPUT_PATH must be set in .env file", "")
    /\ gpc' = "idle"
    /\ UNCHANGED << impl, output_path, dirs, svars >>

\* the image file does not exist
RaiseImageNotFound ==
    /\ gpc = "env"
    /\ gresult' = Outcome("FileNotFoundError", "Input image not found", "")
    /\ gpc' = "idle"
    /\ UNCHANGED << impl, output_path, dirs, svars >>

\* Path(output_path).parent.mkdir(parents=True, exist_ok=True)
GenerateMakeParent ==
    /\ gpc = "env"
    /\ dirs' = dirs \cup { Parent(output_path) }
    /\ gpc' = "query"
    /\ UNCHANGED << impl, output_path, gresult, svars >>

\* a bug to compare with: the output file is created before the query
QueryFailsAfterOpen ==
    /\ gpc = "query"
    /\ fs' = [fs EXCEPT ![output_path] = OpenForWrite(@)]
    /\ gresult' = Outcome("RuntimeError", FailedMsg, "query")
    /\ gpc' = "idle"
    /\ UNCHANGED << impl, output_path, dirs, heightmap, cfg, pc, i, j, tri, result,
                    calls, log, vvars >>

\* reading the image or the depth query raises; "except Exception" wraps it
QueryFails ==
    /\ gpc = "query"
    /\ gresult' = Outcome("RuntimeError", FailedMsg, "query")
    /\ gpc' = "idle"
    /\ UNCHANGED << impl, output_path, dirs, svars >>

\* the depth query returns the depth image
QueryReturns ==
    /\ gpc = "query"
    /\ gpc' = "process"
    /\ UNCHANGED << impl, output_path, dirs, gresult, svars >>

\* Image.open, process_image or the resize raises
ProcessFails ==
    /\ gpc = "process"
    /\ gresult' = Outcome("RuntimeError", FailedMsg, "process")
    /\ gpc' = "idle"
    /\ UNCHANGED << impl, output_path, dirs, svars >>

\* the heightmap is ready and heightmap_to_stl of the same module is called
GenerateStl ==
    /\ gpc = "process"
    /\ calls' = calls + 1
    /\ pc' = IF impl = "main" THEN "unpack" ELSE "check"
    /\ result' = "none"
    /\ gpc' = "stl"
    /\ UNCHANGED << impl, output_path, dirs, gresult, heightmap, cfg, fs, i, j, tri,
                    log, vvars >>

\* heightmap_to_stl returned: return output_path
GenerateReturns ==
    /\ gpc = "stl" /\ pc = "idle" /\ result = "ok"
    /\ gresult' = Outcome("returned", output_path, "")
    /\ gpc' = "idle"
    /\ UNCHANGED << impl, output_path, dirs, svars >>

\* heightmap_to_stl raised; "except Exception" wraps it
GenerateWraps ==
    /\ gpc = "stl" /\ pc = "idle" /\ result \notin { "ok", "none" }
    /\ gresult' = Outcome("RuntimeError", FailedMsg, result)
    /\ gpc' = "idle"
    /\ UNCHANGED << impl, output_path, dirs, svars >>

NextGenerate ==
    \/ \E m \in { "core", "main" }, p \in Paths : GenerateCall(m, p)
    \/ RaiseMissingSetting
    \/ RaiseImageNotFound
    \/ GenerateMakeParent
    \/ QueryFails
    \/ QueryReturns
    \/ ProcessFails
    \/ GenerateStl
    \/ MakeParent
    \/ OpenAndWriteHeader
    \/ MainOpenAndWriteHeader
    \/ WriteTopFacet
    \/ WriteBaseFacet
    \/ WriteTrailer
    \/ WriteFails
    \/ GenerateReturns
    \/ GenerateWraps

SpecGenerate == InitGenerate /\ [][NextGenerate]_vars

\* ------------------------------------------------------------------------
\* validate_mesh: the report computed from the text that was read
\* ------------------------------------------------------------------------
\* the number of times kw occurs inside a solid name (str.count looks at
\* the whole text, names included)
Occurrences(name, kw) ==
    IF name = "vertex_cloud" /\ kw = "vertex" THEN 1 ELSE 0

\* content.count(kw)
Count(content, kw) ==
    Cardinality({ k \in 1..Len(content) : content[k].kw = kw })
    + Cardinality({ k \in 1..Len(content) : Occurrences(content[k].name, kw) > 0 })

\* content.startswith("solid")
StartsWithSolid(content) == Len(content) > 0 /\ content[1].kw = "solid"

\* a line of white space only
Blank == Ln("", "", <<>>)

\* content.rstrip()
RECURSIVE rstrip(_)
rstrip(content) ==
    IF Len(content) > 0 /\ content[Len(content)] = Blank
    THEN rstrip(SubSeq(content, 1, Len(content) - 1))
    ELSE content

\* content.rstrip().endswith("endsolid tactile_model")
EndsWithTrailer(content) ==
    LET t == rstrip(content)
    IN  /\ Len(t) > 0
        /\ t[Len(t)].kw = "endsolid"
        /\ t[Len(t)].name = "tactile_model"

\* a bug to compare with: the vertex count mismatch is an error
validate_mesh_mismatch_is_error(content) ==
    LET triangle_count == Count(content, "facet normal")
        vertex_count == Count(content, "vertex")
        expected_vertices == triangle_count * 3
        errors ==
            (IF StartsWithSolid(content) THEN <<>>
             ELSE << "Invalid STL format: must start with 'solid'" >>)
            \o (IF triangle_count = 0 THEN << "No triangles found in STL file" >>
                ELSE <<>>)
            \o (IF vertex_count # expected_vertices THEN << "Vertex count mismatch" >>
                ELSE <<>>)
        warnings ==
            (IF EndsWithTrailer(content) THEN <<>>
             ELSE << "STL file may be incomplete" >>)
    IN  [valid |-> Len(errors) = 0, errors |-> errors, warnings |-> warnings,
         triangle_count |-> triangle_count]

validate_mesh(content) ==
    LET triangle_count == Count(content, "facet normal")
        vertex_count == Count(content, "vertex")
        expected_vertices == triangle_count * 3
        errors ==
            (IF StartsWithSolid(content) THEN <<>>
             ELSE << "Invalid STL format: must start with 'solid'" >>)
            \o (IF triangle_count = 0 THEN << "No triangles found in STL file" >>
                ELSE <<>>)
        warnings ==
            (IF EndsWithTrailer(content) THEN <<>>
             ELSE << "STL file may be incomplete" >>)
            \o (IF vertex_count # expected_vertices THEN << "Vertex count mismatch" >>
                ELSE <<>>)
    IN  [valid |-> Len(errors) = 0, errors |-> errors, warnings |-> warnings,
         triangle_count |-> triangle_count]

\* ------------------------------------------------------------------------
\* validate_mesh: the files it may be given
\* ------------------------------------------------------------------------
MaxChanges == 1

\* a line holding a byte sequence that is not UTF-8: f.read() raises
\* UnicodeDecodeError
Undecodable == Ln("<invalid utf-8>", "", <<>>)

SampleFacet ==
    Facet(<< Lit(FALSE, 0, <<0>>), Lit(FALSE, 0, <<0>>), Lit(FALSE, 1, <<0>>) >>,
          << Fmt(0, PDen, 3), Fmt(0, PDen, 3), Fmt(12, PDen, 3) >>,
          << Fmt(2, PDen, 3), Fmt(0, PDen, 3), Fmt(12, PDen, 3) >>,
          << Fmt(2, PDen, 3), Fmt(2, PDen, 3), Fmt(12, PDen, 3) >>)

\* contents from any source: empty, not STL, complete, with white space
\* around, truncated, written by another tool, without triangles, binary
Texts ==
    { <<>>,
      << Ln("hello", "world", <<>>) >>,
      << Header >> \o SampleFacet \o << Trailer >>,
      << Header >> \o SampleFacet \o << Trailer, Blank >>,
      << Blank, Header >> \o SampleFacet \o << Trailer >>,
      << Header >> \o SampleFacet,
      << Header >> \o SubSeq(SampleFacet, 1, 3),
      << Ln("solid", "cube", <<>>) >> \o SampleFacet \o << Ln("endsolid", "cube", <<>>) >>,
      << Ln("solid", "vertex_cloud", <<>>) >> \o SampleFacet
          \o << Ln("endsolid", "vertex_cloud", <<>>) >>,
      StaleText,
      << Header, Undecodable >> }

Files == { NoFile } \cup { [exists |-> TRUE, content |-> t] : t \in Texts }

\* path.stat().st_size: the bytes of the lines as they are written
Indent(kw) ==
    CASE kw = "facet normal" -> 2
      [] kw = "outer loop" -> 4
      [] kw = "vertex" -> 6
      [] kw = "endloop" -> 4
      [] kw = "endfacet" -> 2
      [] OTHER -> 0

RECURSIVE Width(_)
Width(n) == IF n < 10 THEN 1 ELSE 1 + Width(n \div 10)

TokBytes(t) == (IF t.neg THEN 1 ELSE 0) + Width(t.ip) + 1 + Len(t.frac)

RECURSIVE SumBytes(_)
SumBytes(nums) == IF nums = <<>> THEN 0 ELSE 1 + TokBytes(Head(nums)) + SumBytes(Tail(nums))

LineBytes(ln) ==
    Indent(ln.kw) + Len(ln.kw) + (IF ln.name = "" THEN 0 ELSE 1 + Len(ln.name))
    + SumBytes(ln.nums) + 1

RECURSIVE st_size(_)
st_size(content) ==
    IF content = <<>> THEN 0 ELSE LineBytes(Head(content)) + st_size(Tail(content))

\* ------------------------------------------------------------------------
\* validate_mesh, step by step, on a file system that another process may
\* change
\* ------------------------------------------------------------------------
\* what validate_mesh leaves alone
hvars == << heightmap, cfg, output_path, dirs, pc, i, j, tri, result, log, impl >>

NotFoundMsg == "STL file not found"
StatNotFoundMsg == "[Errno 2] No such file or directory"
ReadErrorMsg == "Error reading STL file"

InitValidate ==
    /\ heightmap = PatternGrid(2, 2, <<0, 0, 2, 0>>)
    /\ cfg = Config(2, 20, 10, 2)
    /\ output_path = "out.stl"
    /\ dirs = { ".", "models" }
    /\ fs \in [Paths -> Files]
    /\ pc = "idle"
    /\ i = 0 /\ j = 0 /\ tri = 1
    /\ result = "none"
    /\ calls = 0
    /\ log = <<>>
    /\ impl = "core"
    /\ ValidateIdle
    /\ GenerateIdle

\* validate_mesh(p) is called
ValidateCall(p) ==
    /\ vpc = "idle"
    /\ calls < MaxCalls
    /\ calls' = calls + 1
    /\ stl_path' = p
    /\ existed' = FALSE
    /\ vpc' = "exists"
    /\ vtext' = <<>>
    /\ report' = NoReport
    /\ vresult' = NoResult
    /\ changes' = 0
    /\ UNCHANGED << fs, hvars, gvars >>

\* a bug to compare with: the missing file is reported, not raised
RaiseFileNotFoundAsReport ==
    /\ vpc = "exists"
    /\ ~ fs[stl_path].exists
    /\ report' = [report EXCEPT !.errors = << NotFoundMsg >>]
    /\ vresult' = ReturnedReport
    /\ vpc' = "idle"
    /\ UNCHANGED << fs, calls, stl_path, vtext, existed, changes, hvars, gvars >>

\* if not path.exists(): raise FileNotFoundError
RaiseFileNotFound ==
    /\ vpc = "exists"
    /\ ~ fs[stl_path].exists
    /\ vresult' = Raised("FileNotFoundError", NotFoundMsg, stl_path)
    /\ vpc' = "idle"
    /\ UNCHANGED << fs, calls, stl_path, vtext, report, existed, changes, hvars, gvars >>

\* path.exists() is true
PathExists ==
    /\ vpc = "exists"
    /\ fs[stl_path].exists
    /\ vpc' = "open"
    /\ existed' = TRUE
    /\ UNCHANGED << fs, calls, stl_path, vtext, report, vresult, changes, hvars, gvars >>

\* whether open(stl_path, "r", encoding="utf-8") and f.read() succeed
Readable(file) ==
    /\ file.exists
    /\ \A k \in 1..Len(file.content) : file.content[k] # Undecodable

\* the file is read and the checks of the "try" block run on its content
ReadAndCount ==
    /\ vpc = "open"
    /\ Readable(fs[stl_path])
    /\ vtext' = fs[stl_path].content
    /\ LET r == validate_mesh(fs[stl_path].content)
       IN  report' = [report EXCEPT !.errors = r.errors, !.warnings = r.warnings,
                                    !.triangle_count = r.triangle_count]
    /\ vpc' = "size"
    /\ UNCHANGED << fs, calls, stl_path, vresult, existed, changes, hvars, gvars >>

\* open or read raises; "except Exception" turns it into an error entry
ReadFails ==
    /\ vpc = "open"
    /\ ~ Readable(fs[stl_path])
    /\ report' = [report EXCEPT !.errors = << ReadErrorMsg >>]
    /\ vpc' = "size"
    /\ UNCHANGED << fs, calls, stl_path, vtext, vresult, existed, changes, hvars, gvars >>

\* a bug to compare with: a warning makes the report invalid
ReturnValueStrict(r, file_size) ==
    [r EXCEPT !.valid = (Len(r.errors) = 0 /\ Len(r.warnings) = 0),
              !.file_size = file_size]

\* the dictionary that is returned
ReturnValue(r, file_size) ==
    [r EXCEPT !.valid = (Len(r.errors) = 0), !.file_size = file_size]

\* "... if path.exists() else 0" in the return statement
SizeExists ==
    /\ vpc = "size"
    /\ IF fs[stl_path].exists
       THEN vpc' = "stat" /\ UNCHANGED << report, vresult >>
       ELSE /\ report' = ReturnValue(report, 0)
            /\ vresult' = ReturnedReport
            /\ vpc' = "idle"
    /\ UNCHANGED << fs, calls, stl_path, vtext, existed, changes, hvars, gvars >>

\* path.stat().st_size, then return; stat raises when the file is gone
Stat ==
    /\ vpc = "stat"
    /\ IF fs[stl_path].exists
       THEN /\ report' = ReturnValue(report, st_size(fs[stl_path].content))
            /\ vresult' = ReturnedReport
       ELSE /\ vresult' = Raised("FileNotFoundError", StatNotFoundMsg, stl_path)
            /\ UNCHANGED report
    /\ vpc' = "idle"
    /\ UNCHANGED << fs, calls, stl_path, vtext, existed, changes, hvars, gvars >>

\* another process deletes the file while validate_mesh runs
OtherDeletes(p) ==
    /\ vpc # "idle"
    /\ changes < MaxChanges
    /\ fs[p].exists
    /\ fs' = [fs EXCEPT ![p] = NoFile]
    /\ changes' = changes + 1
    /\ UNCHANGED << calls, vpc, stl_path, vtext, report, vresult, existed, hvars, gvars >>

\* another process rewrites the file while validate_mesh runs
OtherWrites(p, t) ==
    /\ vpc # "idle"
    /\ changes < MaxChanges
    /\ fs[p] # [exists |-> TRUE, content |-> t]
    /\ fs' = [fs EXCEPT ![p] = [exists |-> TRUE, content |-> t]]
    /\ changes' = changes + 1
    /\ UNCHANGED << calls, vpc, stl_path, vtext, report, vresult, existed, hvars, gvars >>

\* validate_mesh alone
NextValidate ==
    \/ \E p \in Paths : ValidateCall(p)
    \/ RaiseFileNotFound
    \/ PathExists
    \/ ReadAndCount
    \/ ReadFails
    \/ SizeExists
    \/ Stat

SpecValidate == InitValidate /\ [][NextValidate]_vars

\* validate_mesh next to another process
NextRace ==
    \/ \E p \in Paths : ValidateCall(p)
    \/ RaiseFileNotFound
    \/ PathExists
    \/ ReadAndCount
    \/ ReadFails
    \/ SizeExists
    \/ Stat
    \/ \E p \in Paths : OtherDeletes(p)
    \/ \E p \in Paths, t \in Texts : OtherWrites(p, t)

SpecRace == InitValidate /\ [][NextRace]_vars

\* ------------------------------------------------------------------------
\* Vocabulary of the properties
\* ------------------------------------------------------------------------
\* the array is a non-empty 2-D array, so the function goes on to write
IsGrid == ndim(heightmap) = 2 /\ size(heightmap) # 0
Rows == heightmap.shape[1]
Cols == heightmap.shape[2]

\* every value within [0, 1]
InRange == \A r \in 1..Rows, c \in 1..Cols : heightmap.data[r][c] \in 0..HDen

\* R >= 2, C >= 2 and every value within [0, 1]
ValidGrid == IsGrid /\ Rows >= 2 /\ Cols >= 2 /\ InRange

\* PhysicalScaleConfig's constraints
ValidConfig ==
    /\ cfg.min_height_mm > 0
    /\ cfg.max_height_mm > cfg.min_height_mm
    /\ cfg.base_thickness_mm > 0
    /\ cfg.pixel_scale_mm > 0

\* the last call returned normally; OutText is the file it wrote
Done == pc = "idle" /\ result = "ok"
OutText == fs[output_path].content

\* the last call was refused with an invalid-input error, and the call in
\* progress has not gone past its checks
Returned == pc = "idle" /\ calls > 0
Rejected ==
    /\ pc \in { "idle", "check" }
    /\ Returned => result \in ValueErrors

\* line numbers at which a facet starts
Facets(text) == { k \in 1..Len(text) : text[k].kw = "facet normal" }

\* the number a token denotes, in thousandths
TokVal(t) ==
    LET n == Len(t.frac)
        f == IF n = 0 THEN 0
             ELSE IF n = 1 THEN t.frac[1] * 100
             ELSE IF n = 2 THEN t.frac[1] * 100 + t.frac[2] * 10
             ELSE t.frac[1] * 100 + t.frac[2] * 10 + t.frac[3]
    IN  (IF t.neg THEN 0 - 1 ELSE 1) * (t.ip * 1000 + f)

Pos(nums) == << TokVal(nums[1]), TokVal(nums[2]), TokVal(nums[3]) >>

\* the three vertex positions of the facet starting at line k
Tri(text, k) == << Pos(text[k + 2].nums), Pos(text[k + 3].nums), Pos(text[k + 4].nums) >>

Edges(t) == { {t[1], t[2]}, {t[2], t[3]}, {t[3], t[1]} }

\* every edge of every triangle belongs to exactly two triangles
Watertight(text) ==
    \A k \in Facets(text) : \A e \in Edges(Tri(text, k)) :
        Cardinality({ m \in Facets(text) : e \in Edges(Tri(text, m)) }) = 2

\* ------------------------------------------------------------------------
\* C1 (as claimed): a completed call on an R x C grid, R >= 2 and C >= 2,
\* has written 2(R-1)(C-1) top + 2 base + 4((R-1)+(C-1)) wall facets.
\* ------------------------------------------------------------------------
C1_FacetCountWithWalls ==
    (Done /\ IsGrid /\ Rows >= 2 /\ Cols >= 2) =>
        Count(OutText, "facet normal") =
            2 * (Rows - 1) * (Cols - 1) + 2 + 2 * 2 * ((Rows - 1) + (Cols - 1))

\* ------------------------------------------------------------------------
\* C2 (as claimed): for a valid grid and valid scale parameters the written
\* triangles form a watertight solid: every edge of every triangle is
\* shared by exactly two triangles.
\* ------------------------------------------------------------------------
C2_Watertight == (Done /\ ValidGrid /\ ValidConfig) => Watertight(OutText)

\* ------------------------------------------------------------------------
\* C3: round trip.  For a valid grid and valid scale parameters,
\* validate_mesh on the file a completed call wrote reports valid = true
\* and no errors.
\* ------------------------------------------------------------------------
C3_RoundTrip ==
    (Done /\ ValidGrid /\ ValidConfig) =>
        /\ validate_mesh(OutText).valid
        /\ validate_mesh(OutText).errors = <<>>

\* C3 witness: a 3 x 3 valid grid was written over a stale file and validates
\* with 10 triangles
C3_Witness ==
    /\ Done /\ ValidGrid /\ ValidConfig
    /\ Rows = 3 /\ Cols = 3
    /\ "models" \in dirs /\ calls = 1
    /\ validate_mesh(OutText).valid
    /\ validate_mesh(OutText).triangle_count = 10

\* ------------------------------------------------------------------------
\* C4: determinism.  Any two completed calls with the same height grid and
\* the same four scale parameters wrote the same text, whatever their
\* output paths, whatever the paths held before and whatever call came
\* earlier.
\* ------------------------------------------------------------------------
C4_Deterministic ==
    \A a \in 1..Len(log), b \in 1..Len(log) :
        (log[a].heightmap = log[b].heightmap /\ log[a].cfg = log[b].cfg)
            => log[a].text = log[b].text

\* C4 witness: two completed calls to different paths, both of which held
\* another text before, wrote facets
C4_Witness ==
    /\ Len(log) = 2
    /\ log[1].path # log[2].path
    /\ "models" \in dirs
    /\ Len(log[1].text) > Len(StaleText)
    /\ log[1].text = log[2].text

\* ------------------------------------------------------------------------
\* C5: exact height mapping.  In the text of a completed call the z written
\* for the top-surface vertex at grid point (r, c) is
\* min_height_mm + base_thickness_mm + h[r,c] * (max_height_mm - min_height_mm)
\* (printed at 3 decimals); h = 0 gives min_height_mm + base_thickness_mm
\* and h = 1 gives max_height_mm + base_thickness_mm.
\* ------------------------------------------------------------------------
\* in 1/ZDen mm, for h in quarters
HeightToMm(h) ==
    HDen * cfg.min_height_mm + HDen * cfg.base_thickness_mm
      + h * (cfg.max_height_mm - cfg.min_height_mm)

\* the grid point (0-based) of vertex n of top facet number f (0-based)
CornerOf(f, n) ==
    LET cell == f \div 2
        ci   == cell \div (Cols - 1)
        cj   == cell % (Cols - 1)
        off  == IF f % 2 = 0
                THEN << <<0, 0>>, <<1, 0>>, <<1, 1>> >>
                ELSE << <<0, 0>>, <<1, 1>>, <<0, 1>> >>
    IN  << ci + off[n][1], cj + off[n][2] >>

\* the vertex line n of facet number f (0-based) of the text
VertexLine(text, f, n) == text[1 + 7 * f + 2 + n]

C5_ExactHeightMapping ==
    (Done /\ IsGrid) =>
        \A f \in 0..(2 * (Rows - 1) * (Cols - 1) - 1), n \in 1..3 :
            LET rc == CornerOf(f, n)
                h  == heightmap.data[rc[1] + 1][rc[2] + 1]
                v  == VertexLine(OutText, f, n)
            IN  /\ v.kw = "vertex"
                /\ v.nums[1] = Fmt(rc[1] * cfg.pixel_scale_mm, PDen, 3)
                /\ v.nums[2] = Fmt(rc[2] * cfg.pixel_scale_mm, PDen, 3)
                /\ v.nums[3] = Fmt(HeightToMm(h), ZDen, 3)
                /\ h = 0 => v.nums[3] =
                       Fmt(cfg.min_height_mm + cfg.base_thickness_mm, PDen, 3)
                /\ h = HDen => v.nums[3] =
                       Fmt(cfg.max_height_mm + cfg.base_thickness_mm, PDen, 3)

\* C5 witness: the grid [[0.0, 1.0], [0.5, 0.25]] with min 0.1, max 3.0,
\* base 1.0, scale 0.5 was written: z = 1.100 at h = 0 and 4.000 at h = 1
C5_Witness ==
    /\ Done
    /\ heightmap = PatternGrid(2, 2, <<2, 4, 0, 0>>)
    /\ cfg = Config(1, 30, 10, 5)
    /\ VertexLine(OutText, 0, 1).nums[3] = Lit(FALSE, 1, <<1, 0, 0>>)
    /\ VertexLine(OutText, 1, 3).nums[3] = Lit(FALSE, 4, <<0, 0, 0>>)

\* ------------------------------------------------------------------------
\* C6: facet grammar.  The text of a completed call starts with the header
\* "solid tactile_model", ends with the trailer "endsolid tactile_model"
\* (same name), and in between consists of complete facet blocks: facet
\* normal, outer loop, three vertex lines, endloop, endfacet.  So the
\* counts of "outer loop", "endloop" and "endfacet" equal the facet count
\* and the vertex count is three times the facet count.
\* ------------------------------------------------------------------------
BlockKw == << "facet normal", "outer loop", "vertex", "vertex", "vertex",
              "endloop", "endfacet" >>

C6_FacetGrammar ==
    Done =>
        LET text == OutText
            n    == Count(text, "facet normal")
        IN  /\ Len(text) = 7 * n + 2
            /\ text[1].kw = "solid" /\ text[1].name = "tactile_model"
            /\ text[Len(text)].kw = "endsolid"
            /\ text[Len(text)].name = text[1].name
            /\ \A f \in 0..(n - 1), k \in 1..7 :
                   /\ text[1 + 7 * f + k].kw = BlockKw[k]
                   /\ Len(text[1 + 7 * f + k].nums) = (IF k \in {1, 3, 4, 5} THEN 3 ELSE 0)
            /\ Count(text, "outer loop") = n
            /\ Count(text, "endloop") = n
            /\ Count(text, "endfacet") = n
            /\ Count(text, "vertex") = 3 * n

\* C6 witness: a completed call on a 3 x 3 grid wrote 10 facets, 30 vertices
C6_Witness ==
    /\ Done /\ IsGrid /\ Rows = 3 /\ Cols = 3
    /\ Count(OutText, "facet normal") = 10
    /\ Count(OutText, "vertex") = 30

\* ------------------------------------------------------------------------
\* C7 (as claimed): in the text of a completed call every facet normal has
\* three components printed with exactly 6 decimals and every vertex three
\* coordinates printed with exactly 3 decimals, base-plate facets included.
\* ------------------------------------------------------------------------
C7_DecimalPlaces ==
    Done =>
        \A k \in 1..Len(OutText) : \A m \in 1..Len(OutText[k].nums) :
            /\ OutText[k].kw = "facet normal" => Len(OutText[k].nums[m].frac) = 6
            /\ OutText[k].kw = "vertex" => Len(OutText[k].nums[m].frac) = 3

\* ------------------------------------------------------------------------
\* C8 (as claimed): a call with a grid that has R = 1 or C = 1 raises an
\* invalid-input error and never gets to computing or writing a triangle.
\* ------------------------------------------------------------------------
C8_DegenerateRejected ==
    (IsGrid /\ (Rows = 1 \/ Cols = 1)) => Rejected

\* ------------------------------------------------------------------------
\* C9 (as claimed): a call with min_height_mm <= 0, max_height_mm <=
\* min_height_mm, base_thickness_mm <= 0 or pixel_scale_mm <= 0 raises an
\* invalid-input error instead of producing a mesh.
\* ------------------------------------------------------------------------
C9_ScaleValidated == ~ValidConfig => Rejected

\* ------------------------------------------------------------------------
\* C10 (as claimed): a grid with a value outside [0, 1] is rejected with an
\* invalid-input error, so every top-surface z ever written lies within
\* [min_height_mm + base_thickness_mm, max_height_mm + base_thickness_mm].
\* ------------------------------------------------------------------------
\* line k of the file being written is a vertex line of a top-surface facet
IsTopVertex(text, k) ==
    /\ text[k].kw = "vertex"
    /\ k <= 1 + 7 * 2 * (Rows - 1) * (Cols - 1)

C10_RangeEnforced ==
    /\ (IsGrid /\ ~InRange) => Rejected
    /\ (IsGrid /\ pc \in { "top", "base", "trailer" }) =>
          \A k \in 1..Len(OutText) :
              IsTopVertex(OutText, k) =>
                  /\ TokVal(OutText[k].nums[3]) >=
                       100 * (cfg.min_height_mm + cfg.base_thickness_mm)
                  /\ TokVal(OutText[k].nums[3]) <=
                       100 * (cfg.max_height_mm + cfg.base_thickness_mm)

\* ------------------------------------------------------------------------
\* C11: a call with an array of zero elements returns with ValueError
\* 'Heightmap cannot be empty' whatever its number of dimensions, and a call
\* with a non-empty array that is not 2-D returns with ValueError
\* 'Heightmap must be a 2D array'; neither gets past the checks.
\* ------------------------------------------------------------------------
C11_InvalidArrayErrors ==
    /\ (size(heightmap) = 0 \/ ndim(heightmap) # 2) => pc \in { "idle", "check" }
    /\ (Returned /\ size(heightmap) = 0) => result = EmptyMsg
    /\ (Returned /\ size(heightmap) # 0 /\ ndim(heightmap) # 2) => result = Not2DMsg

\* C11 witness: np.array([]) (1-D and empty) was refused as empty
C11_Witness ==
    /\ Returned
    /\ heightmap.shape = <<0>>
    /\ result = EmptyMsg

\* ------------------------------------------------------------------------
\* C12: fail fast.  The step that raises an invalid-input error comes
\* straight from the checks and changes neither the directories nor any
\* file, and the call that led to the checks changed none either: no
\* directory is created, no file is created, truncated or modified.
\* ------------------------------------------------------------------------
C12_FailFast ==
    [][ /\ (pc' = "idle" /\ result' \in ValueErrors /\ pc # "idle")
            => (pc = "check" /\ fs' = fs /\ dirs' = dirs)
        /\ (pc' = "check") => (pc = "idle" /\ fs' = fs /\ dirs' = dirs) ]_vars

\* C12 witness: a call to models/out.stl was refused; the directory models
\* does not exist and neither does the file
C12_Witness ==
    /\ Returned
    /\ result \in ValueErrors
    /\ output_path = "models/out.stl"
    /\ "models" \notin dirs
    /\ ~fs[output_path].exists

\* ------------------------------------------------------------------------
\* More vocabulary: numbers and facets of a text
\* ------------------------------------------------------------------------
\* the number a token denotes, in units of 10^-d (digits past d are cut)
TokValAt(t, d) ==
    LET RECURSIVE FracSum(_)
        FracSum(k) == IF k = 0 THEN 0
                      ELSE FracSum(k - 1)
                             + (IF k <= Len(t.frac) THEN t.frac[k] * Pow10(d - k) ELSE 0)
    IN  (IF t.neg THEN 0 - 1 ELSE 1) * (t.ip * Pow10(d) + FracSum(d))

\* the declared normal of the facet starting at line k, in millionths
DeclaredNormal(text, k) ==
    << TokValAt(text[k].nums[1], 6), TokValAt(text[k].nums[2], 6),
       TokValAt(text[k].nums[3], 6) >>

\* the line at which facet number f (0-based) of a complete text starts
FacetStart(f) == 2 + 7 * f

\* number of top-surface facets the grid has cells for
TopCount == 2 * (Rows - 1) * (Cols - 1)

\* the facets whose declared normal is (0, 0, -1)
DownFacets(text) ==
    { k \in Facets(text) : DeclaredNormal(text, k) = << 0, 0, 0 - 1000000 >> }

\* ------------------------------------------------------------------------
\* C13 (as claimed): the base plate of a completed call consists of exactly
\* two triangles with normal (0, 0, -1) that together span the rectangle
\* from (0, 0) to ((R-1) * pixel_scale_mm, (C-1) * pixel_scale_mm), and all
\* of their vertices lie at z = 0.
\* ------------------------------------------------------------------------
C13_BasePlateAtZero ==
    (Done /\ IsGrid) =>
        LET text == OutText
            base == { FacetStart(TopCount), FacetStart(TopCount + 1) }
            mx   == 100 * (Rows - 1) * cfg.pixel_scale_mm
            my   == 100 * (Cols - 1) * cfg.pixel_scale_mm
            xy   == { << Tri(text, k)[n][1], Tri(text, k)[n][2] >> : k \in base, n \in 1..3 }
        IN  /\ Count(text, "facet normal") = TopCount + 2
            /\ DownFacets(text) = base
            /\ xy = { <<0, 0>>, <<mx, 0>>, <<0, my>>, <<mx, my>> }
            /\ \A k \in base, n \in 1..3 : Tri(text, k)[n][3] = 0

\* ------------------------------------------------------------------------
\* C14: the text of a completed call has a base plate at the base-thickness
\* level: there are facets with the downward normal (0, 0, -1), and every
\* vertex of every such facet has z = base_thickness_mm.
\* ------------------------------------------------------------------------
C14_BaseAtBaseThickness ==
    Done =>
        /\ DownFacets(OutText) # {}
        /\ \A k \in DownFacets(OutText), n \in 1..3 :
               OutText[k + 1 + n].nums[3] = Fmt(cfg.base_thickness_mm, PDen, 3)

\* C14 witness: with base_thickness_mm = 1.0 a 2 x 2 grid got two downward
\* facets, the first of which starts at z = 1.000
C14_Witness ==
    /\ Done /\ IsGrid /\ Rows = 2 /\ Cols = 2
    /\ cfg.base_thickness_mm = 10
    /\ Cardinality(DownFacets(OutText)) = 2
    /\ OutText[FacetStart(TopCount) + 2].nums[3] = Lit(FALSE, 1, <<0, 0, 0>>)

\* ------------------------------------------------------------------------
\* C15: top-surface tessellation.  In the text of a completed call every
\* cell (i, j), 0 <= i < R-1, 0 <= j < C-1, has exactly two facets, with
\* vertices at the grid points (i,j)-(i+1,j)-(i+1,j+1) and
\* (i,j)-(i+1,j+1)-(i,j+1) in that order, where grid point (r, c) is at
\* x = r * pixel_scale_mm, y = c * pixel_scale_mm, z = mapped height of
\* h[r,c]; both facets carry the normal computed for the cell.
\* ------------------------------------------------------------------------
\* the printed vertex of grid point (r, c) (0-based)
GridVertex(r, c) ==
    << Fmt(r * cfg.pixel_scale_mm, PDen, 3),
       Fmt(c * cfg.pixel_scale_mm, PDen, 3),
       Fmt(HeightToMm(heightmap.data[r + 1][c + 1]), ZDen, 3) >>

\* the printed normal of cell (ci, cj)
CellNormal(ci, cj) ==
    LET z(r, c) == HeightToMm(heightmap.data[r + 1][c + 1])
        normal  == calculate_normals(z(ci, cj), z(ci + 1, cj), z(ci, cj + 1),
                                     z(ci + 1, cj + 1), ci, cj, cfg.pixel_scale_mm)
    IN  << FmtNormal(normal, 1), FmtNormal(normal, 2), FmtNormal(normal, 3) >>

C15_TopTessellation ==
    (Done /\ IsGrid) =>
        /\ Count(OutText, "facet normal") - Cardinality(DownFacets(OutText)) = TopCount
        /\ \A ci \in 0..(Rows - 2), cj \in 0..(Cols - 2) :
             LET k1 == FacetStart(2 * (ci * (Cols - 1) + cj))
                 k2 == k1 + 7
                 t  == OutText
             IN  /\ t[k1].kw = "facet normal" /\ t[k2].kw = "facet normal"
                 /\ t[k1].nums = CellNormal(ci, cj)
                 /\ t[k2].nums = t[k1].nums
                 /\ t[k1 + 2].nums = GridVertex(ci, cj)
                 /\ t[k1 + 3].nums = GridVertex(ci + 1, cj)
                 /\ t[k1 + 4].nums = GridVertex(ci + 1, cj + 1)
                 /\ t[k2 + 2].nums = GridVertex(ci, cj)
                 /\ t[k2 + 3].nums = GridVertex(ci + 1, cj + 1)
                 /\ t[k2 + 4].nums = GridVertex(ci, cj + 1)

\* C15 witness: the 3 x 3 continuation of [[0.0,1.0],[0.5,0.25]] at scale
\* 0.5: the second facet of cell (1, 1) ends at grid point (1, 2), printed
\* 0.500 1.000 1.100
C15_Witness ==
    /\ Done
    /\ heightmap = PatternGrid(3, 3, <<2, 4, 0, 0>>)
    /\ cfg = Config(1, 30, 10, 5)
    /\ OutText[FacetStart(7) + 4].nums =
         << Lit(FALSE, 0, <<5, 0, 0>>), Lit(FALSE, 1, <<0, 0, 0>>),
            Lit(FALSE, 1, <<1, 0, 0>>) >>

\* ------------------------------------------------------------------------
\* C16 (as claimed): the facets of a completed call come in a fixed order:
\* the top-surface facets in row-major order of their cell, first triangle
\* before second; then the two base-plate facets; then the wall facets of
\* the sides i = 0, i = R-1, j = 0, j = C-1, in that order.
\* ------------------------------------------------------------------------
\* the top facets, in row-major order, then the base facets
TopThenBase(t) ==
    /\ \A f \in 0..(TopCount - 1) : \A n \in 1..3 :
         t[FacetStart(f) + 1 + n].nums = GridVertex(CornerOf(f, n)[1], CornerOf(f, n)[2])
    /\ \A f \in { TopCount, TopCount + 1 } : FacetStart(f) \in DownFacets(t)

\* facets number from..(from + count - 1) have every vertex on the plane
\* coordinate axis = value (in thousandths)
OnSide(t, from, count, axis, value) ==
    \A f \in from..(from + count - 1), n \in 1..3 :
        Tri(t, FacetStart(f))[n][axis] = value

C16_FacetOrder ==
    (Done /\ IsGrid /\ Rows >= 2 /\ Cols >= 2) =>
        LET t  == OutText
            w0 == TopCount + 2
            wi == 2 * (Cols - 1)
            wj == 2 * (Rows - 1)
            mx == 100 * (Rows - 1) * cfg.pixel_scale_mm
            my == 100 * (Cols - 1) * cfg.pixel_scale_mm
        IN  /\ TopThenBase(t)
            /\ Count(t, "facet normal") = w0 + 2 * wi + 2 * wj
            /\ OnSide(t, w0, wi, 1, 0)
            /\ OnSide(t, w0 + wi, wi, 1, mx)
            /\ OnSide(t, w0 + 2 * wi, wj, 2, 0)
            /\ OnSide(t, w0 + 2 * wi + wj, wj, 2, my)

\* ------------------------------------------------------------------------
\* C17: outward winding.  For pixel_scale_mm > 0 and R, C >= 2, in the text
\* of a completed call every top-surface triangle winds so that its
\* geometric normal (right-hand rule on its three vertices) has a positive
\* z component, every base-plate triangle so that it has a negative one,
\* and the sign agrees with the z sign of the normal the facet declares.
\* ------------------------------------------------------------------------
\* z component of (p2 - p1) x (p3 - p1)
GeomZ(t) ==
    (t[2][1] - t[1][1]) * (t[3][2] - t[1][2]) - (t[2][2] - t[1][2]) * (t[3][1] - t[1][1])

C17_OutwardWinding ==
    (Done /\ IsGrid /\ Rows >= 2 /\ Cols >= 2 /\ cfg.pixel_scale_mm > 0) =>
        \A k \in Facets(OutText) :
            LET gz == GeomZ(Tri(OutText, k))
                nz == DeclaredNormal(OutText, k)[3]
            IN  /\ k < FacetStart(TopCount) => gz > 0
                /\ k >= FacetStart(TopCount) => gz < 0
                /\ (gz > 0) = (nz > 0)
                /\ (gz < 0) = (nz < 0)

\* C17 witness: a sloped 3 x 3 grid at scale 0.5: the first top facet winds
\* upwards, the last base facet downwards
C17_Witness ==
    /\ Done
    /\ heightmap = PatternGrid(3, 3, <<2, 4, 0, 0>>)
    /\ cfg.pixel_scale_mm = 5
    /\ GeomZ(Tri(OutText, FacetStart(0))) = 250000
    /\ GeomZ(Tri(OutText, FacetStart(TopCount + 1))) = 0 - 1000000

\* ------------------------------------------------------------------------
\* C18: unit normals.  The normal calculate_normals returns for a cell has
\* length 1 (the vector n / sqrt(len2) with len2 = |n|^2), and every normal
\* printed in the text of a completed call has a length within 1e-3 of 1.
\* ------------------------------------------------------------------------
\* a^2 for a in millionths, as << high, low >> with value high * 10^6 + low
Square(a) ==
    LET a1 == Abs(a) \div 1000
        a0 == Abs(a) % 1000
        m  == 2 * a1 * a0
    IN  << a1 * a1 + m \div 1000, (m % 1000) * 1000 + a0 * a0 >>

\* |v|^2 of a vector in millionths, normalised so that low < 10^6
LengthSq(v) ==
    LET hi == Square(v[1])[1] + Square(v[2])[1] + Square(v[3])[1]
        lo == Square(v[1])[2] + Square(v[2])[2] + Square(v[3])[2]
    IN  << hi + lo \div 1000000, lo % 1000000 >>

\* 0.999^2 < |v|^2 < 1.001^2, i.e. 998001 * 10^-6 and 1002001 * 10^-6
LengthWithinThousandth(v) ==
    LET q == LengthSq(v)
    IN  /\ q[1] > 998001 \/ (q[1] = 998001 /\ q[2] > 0)
        /\ q[1] < 1002001

\* the value calculate_normals returns for cell (ci, cj)
CellNormalValue(ci, cj) ==
    LET z(r, c) == HeightToMm(heightmap.data[r + 1][c + 1])
    IN  calculate_normals(z(ci, cj), z(ci + 1, cj), z(ci, cj + 1),
                          z(ci + 1, cj + 1), ci, cj, cfg.pixel_scale_mm)

C18_UnitNormals ==
    (Done /\ IsGrid) =>
        /\ \A ci \in 0..(Rows - 2), cj \in 0..(Cols - 2) :
               /\ CellNormalValue(ci, cj).len2 > 0
               /\ NormSq(CellNormalValue(ci, cj).n) = CellNormalValue(ci, cj).len2
        /\ \A k \in Facets(OutText) :
               LengthWithinThousandth(DeclaredNormal(OutText, k))

\* C18 witness: the first cell of the sloped 3 x 3 grid at scale 0.5 has
\* the normal (-1160, -2320, 400) / sqrt(6888000), printed
\* -0.441989 -0.883978 0.152410
C18_Witness ==
    /\ Done
    /\ heightmap = PatternGrid(3, 3, <<2, 4, 0, 0>>)
    /\ cfg = Config(1, 30, 10, 5)
    /\ CellNormalValue(0, 0).len2 = 6888000
    /\ DeclaredNormal(OutText, FacetStart(0)) = << 0 - 441989, 0 - 883978, 152410 >>

\* ------------------------------------------------------------------------
\* C19: in calculate_normals the cross product of
\* e1 = (pixel_scale, 0, z10 - z00) and e2 = (0, pixel_scale, z01 - z00)
\* has length 0 exactly when pixel_scale = 0, whatever the corner heights;
\* then the function returns exactly (0, 0, 1) (printed 0.000000 0.000000
\* 1.000000), and for pixel_scale # 0 the returned and the printed normal
\* have a strictly positive z component.
\* ------------------------------------------------------------------------
\* the printed (0, 0, 1)
UpTokens ==
    << Lit(FALSE, 0, <<0, 0, 0, 0, 0, 0>>), Lit(FALSE, 0, <<0, 0, 0, 0, 0, 0>>),
       Lit(FALSE, 1, <<0, 0, 0, 0, 0, 0>>) >>

\* e1 x e2 for cell (ci, cj)
CellCross(ci, cj) ==
    LET z(r, c) == HeightToMm(heightmap.data[r + 1][c + 1])
        ps == cfg.pixel_scale_mm * HDen
    IN  Cross(<< F(ps), F(0), F(z(ci + 1, cj) - z(ci, cj)) >>,
              << F(0), F(ps), F(z(ci, cj + 1) - z(ci, cj)) >>)

C19_ZeroLengthOnlyAtZeroScale ==
    (Done /\ IsGrid) =>
        \A ci \in 0..(Rows - 2), cj \in 0..(Cols - 2) :
            LET nv == CellNormalValue(ci, cj)
                k  == FacetStart(2 * (ci * (Cols - 1) + cj))
            IN  /\ (NormSq(CellCross(ci, cj)) = 0) = (cfg.pixel_scale_mm = 0)
                /\ cfg.pixel_scale_mm = 0 =>
                     /\ nv = [n |-> << F(0), F(0), F(1) >>, len2 |-> 1]
                     /\ OutText[k].nums = UpTokens
                /\ cfg.pixel_scale_mm # 0 =>
                     /\ nv.n[3].v > 0
                     /\ DeclaredNormal(OutText, k)[3] > 0
                     /\ DeclaredNormal(OutText, k + 7)[3] > 0

\* C19 witness: the sloped grid [[0.0,1.0],[0.5,0.25]] with pixel_scale_mm
\* = 0: the cross product vanishes and (0, 0, 1) is printed
C19_Witness ==
    /\ Done
    /\ heightmap = PatternGrid(2, 2, <<2, 4, 0, 0>>)
    /\ cfg.pixel_scale_mm = 0
    /\ NormSq(CellCross(0, 0)) = 0
    /\ OutText[FacetStart(0)].nums = UpTokens

\* ------------------------------------------------------------------------
\* C20: for a uniform height grid and a valid scale configuration every
\* top-surface facet of a completed call declares the normal (0, 0, 1)
\* exactly: 0.000000 0.000000 1.000000, no negative zero.
\* ------------------------------------------------------------------------
Uniform ==
    \A r \in 1..Rows, c \in 1..Cols : heightmap.data[r][c] = heightmap.data[1][1]

C20_FlatNormals ==
    (Done /\ IsGrid /\ InRange /\ Uniform /\ ValidConfig) =>
        \A f \in 0..(TopCount - 1) :
            /\ OutText[FacetStart(f)].kw = "facet normal"
            /\ OutText[FacetStart(f)].nums = UpTokens

\* C20 witness: the uniform 3 x 3 grid of 0.5 with a valid configuration:
\* eight top facets, the last one declaring (0, 0, 1)
C20_Witness ==
    /\ Done
    /\ heightmap = PatternGrid(3, 3, <<0, 0, 2, 0>>)
    /\ ValidConfig
    /\ TopCount = 8
    /\ OutText[FacetStart(7)].nums = UpTokens

\* ------------------------------------------------------------------------
\* Vocabulary of the validate_mesh properties
\* ------------------------------------------------------------------------
\* a call of validate_mesh has ended
Validated == vpc = "idle" /\ vresult # NoResult
ReturnedFrom(text) == Validated /\ vresult = ReturnedReport /\ vtext = text

\* a text without any of the defects validate_mesh looks for
Flawless(text) ==
    /\ Len(text) > 0 /\ text[1].kw = "solid"
    /\ Len(rstrip(text)) > 0 /\ rstrip(text)[Len(rstrip(text))].kw = "endsolid"
    /\ Count(text, "facet normal") > 0
    /\ Count(text, "vertex") = 3 * Count(text, "facet normal")

\* ------------------------------------------------------------------------
\* C21  validate_mesh raises a not-found error naming the path if and only
\* if the path does not exist when it is called; for an existing path,
\* whatever it holds (empty, not STL, truncated, not text), it raises nothing
\* and returns a report in which every finding is an entry of errors or of
\* warnings.  (validate_mesh running alone, so that the file at the end of
\* the call is the file at its start; a file changed during the call is the
\* subject of C30.)
\* ------------------------------------------------------------------------
C21_NotFoundIffMissing ==
    Validated =>
        LET file == fs[stl_path]
        IN  /\ (~ file.exists) <=>
                   vresult = Raised("FileNotFoundError", NotFoundMsg, stl_path)
            /\ file.exists =>
                /\ vresult = ReturnedReport
                /\ (~ Readable(file)) => report.errors = << ReadErrorMsg >>
                /\ (Readable(file) /\ ~ Flawless(file.content)) =>
                       Len(report.errors) + Len(report.warnings) > 0

\* C21 witness: a file that is not text was validated and the report came
\* back with the read error as its only finding
C21_Witness ==
    /\ Validated
    /\ existed
    /\ fs[stl_path].content = << Header, Undecodable >>
    /\ vresult = ReturnedReport
    /\ report.errors = << ReadErrorMsg >>
    /\ ~ report.valid

\* the lines of text that are kw lines or name kw inside their name
RECURSIVE OccurrencesIn(_, _)
OccurrencesIn(text, kw) ==
    IF text = <<>> THEN 0
    ELSE (IF Head(text).kw = kw THEN 1 ELSE 0) + Occurrences(Head(text).name, kw)
         + OccurrencesIn(Tail(text), kw)

Contains(seq, x) == \E k \in 1..Len(seq) : seq[k] = x

\* validate_mesh returned a report on a text it could read
ReportedOnText == Validated /\ vresult = ReturnedReport /\ Readable(fs[stl_path])

\* ------------------------------------------------------------------------
\* C22  For every readable text the report has valid == (errors == []);
\* errors is empty exactly when the text begins with "solid" and holds at
\* least one "facet normal"; a text with zero triangles is always invalid;
\* warnings never change valid.
\* ------------------------------------------------------------------------
C22_ValidIffNoErrors ==
    ReportedOnText =>
        /\ report.valid <=> (report.errors = <<>>)
        /\ (report.errors = <<>>) <=>
               /\ Len(vtext) > 0 /\ vtext[1].kw = "solid"
               /\ OccurrencesIn(vtext, "facet normal") >= 1
        /\ OccurrencesIn(vtext, "facet normal") = 0 => ~ report.valid

\* C22 witness: a text cut off after its only facet was reported valid, with
\* the incompleteness warning
C22_Witness ==
    /\ ReportedOnText
    /\ vtext = << Header >> \o SampleFacet
    /\ report.valid
    /\ report.warnings = << "STL file may be incomplete" >>

\* ------------------------------------------------------------------------
\* C23  For every readable text triangle_count is the number of occurrences
\* of "facet normal", and the report has the vertex-count-mismatch warning
\* if and only if the number of occurrences of "vertex" differs from
\* 3 * triangle_count; the mismatch is a warning, never an error.
\* ------------------------------------------------------------------------
C23_VertexMismatchWarning ==
    ReportedOnText =>
        /\ report.triangle_count = OccurrencesIn(vtext, "facet normal")
        /\ Contains(report.warnings, "Vertex count mismatch") <=>
               OccurrencesIn(vtext, "vertex") # 3 * report.triangle_count
        /\ ~ Contains(report.errors, "Vertex count mismatch")

\* C23 witness: the solid named vertex_cloud has one facet and five
\* occurrences of "vertex" (three lines and the name, twice); it is reported
\* valid with the mismatch warning
C23_Witness ==
    /\ ReportedOnText
    /\ Len(vtext) > 0 /\ vtext[1].name = "vertex_cloud"
    /\ report.triangle_count = 1
    /\ OccurrencesIn(vtext, "vertex") = 5
    /\ Contains(report.warnings, "Vertex count mismatch")
    /\ report.valid

\* ------------------------------------------------------------------------
\* C24  validate_mesh accepts STL text from any source: for any solid name
\* N, a text whose trimmed form ends with "endsolid N" gets no
\* incompleteness warning, and a text whose trimmed form does not end with
\* an endsolid trailer gets the warning, which is not an error.
\* ------------------------------------------------------------------------
EndsWithAnyTrailer(text) ==
    LET t == rstrip(text)
    IN  Len(t) > 0 /\ t[Len(t)].kw = "endsolid"

C24_AnySolidName ==
    ReportedOnText =>
        /\ EndsWithAnyTrailer(vtext) <=>
               ~ Contains(report.warnings, "STL file may be incomplete")
        /\ ~ Contains(report.errors, "STL file may be incomplete")

\* ------------------------------------------------------------------------
\* C25  No partial output: if a write fails at any point during
\* heightmap_to_stl (after the header, between two facets, before the
\* trailer), then after the failed call the output path holds what it held
\* before the call (or nothing), and never a truncated file that
\* validate_mesh reports with valid == true.
\* ------------------------------------------------------------------------
C25_NoPartialOutput ==
    (pc = "idle" /\ result = "IOError") =>
        LET file == fs[output_path]
        IN  /\ \/ ~ file.exists
               \/ file.content = StaleText
               \/ \E k \in 1..Len(log) :
                      log[k].path = output_path /\ log[k].text = file.content
            /\ ~ (file.exists /\ ~ EndsWithTrailer(file.content)
                  /\ validate_mesh(file.content).valid)

\* ------------------------------------------------------------------------
\* C27  For every R x C heightmap the number of facets written is at least
\* 2 (R-1) (C-1), two triangles per quad, and at most 2 (R-1) (C-1) + 2 + 10,
\* the quads, a base of two triangles and a slack of 10.
\* ------------------------------------------------------------------------
C27_FacetCountBounds ==
    (Done /\ IsGrid) =>
        LET quads == (Rows - 1) * (Cols - 1)
            n     == OccurrencesIn(OutText, "facet normal")
        IN  2 * quads <= n /\ n <= 2 * quads + 2 + 10

\* C27 witness: a 3 x 3 heightmap gave 10 facets, between 8 and 20
C27_Witness ==
    /\ Done /\ IsGrid
    /\ Rows = 3 /\ Cols = 3
    /\ OccurrencesIn(OutText, "facet normal") = 10

\* ------------------------------------------------------------------------
\* C26  heightmap_to_stl creates the output directory if it does not exist:
\* called with an output path whose parent directory is missing, it creates
\* it and the STL file exists afterwards, in art_tactile_transform.main (the
\* one the test imports) and in core.mesh_generation alike.
\* ------------------------------------------------------------------------
C26_CreatesOutputDirectory ==
    (Returned /\ IsGrid /\ result # "IOError") =>
        /\ result = "ok"
        /\ Parent(output_path) \in dirs
        /\ fs[output_path].exists

\* ------------------------------------------------------------------------
\* C29  The two implementations of heightmap_to_stl are equivalent on valid
\* input: for every non-empty 2-D heightmap, the same four scale parameters
\* and an output path whose parent directory exists, both write
\* byte-identical files.
\* ------------------------------------------------------------------------
C29_TwinsEquivalent ==
    /\ \A a \in 1..Len(log), b \in 1..Len(log) :
           (/\ log[a].impl = "core" /\ log[b].impl = "main"
            /\ log[a].heightmap = log[b].heightmap /\ log[a].cfg = log[b].cfg)
               => log[a].text = log[b].text
    /\ (Returned /\ impl = "main" /\ IsGrid /\ Parent(output_path) \in dirs
        /\ result # "IOError") => result = "ok"

\* C29 witness: core wrote a 3 x 3 heightmap to one path, main the same
\* heightmap to the other, and the two files are the same 72 lines
C29_Witness ==
    /\ Done
    /\ Rows = 3 /\ Cols = 3
    /\ Len(log) = 2
    /\ log[1].impl = "core" /\ log[2].impl = "main"
    /\ log[1].path # log[2].path
    /\ fs[log[1].path].content = fs[log[2].path].content
    /\ Len(fs[log[2].path].content) = 72

\* ------------------------------------------------------------------------
\* C28  If the depth-model query fails, generate_3d raises RuntimeError
\* "Failed to generate 3D model" and a file that did not exist at
\* OUTPUT_PATH before the call does not exist after it: in every run the
\* output file is opened only after the depth query and the image
\* processing have succeeded.
\* ------------------------------------------------------------------------
\* the step is the failure of the depth query
QueryFailure == gpc = "query" /\ gpc' = "idle"

C28_NoOutputOnQueryFailure ==
    [][/\ QueryFailure =>
             /\ gresult'.kind = "RuntimeError" /\ gresult'.message = FailedMsg
             /\ fs' = fs
       /\ (fs' # fs) => (gpc = "stl" /\ gpc' = "stl" /\ pc # "idle")]_vars

\* C28 witness: the query failed in a run for models/out.stl; the directory
\* was made, the file was not
C28_Witness ==
    /\ gpc = "idle"
    /\ gresult = Outcome("RuntimeError", FailedMsg, "query")
    /\ output_path = "models/out.stl"
    /\ "models" \in dirs
    /\ ~ fs[output_path].exists

\* ------------------------------------------------------------------------
\* C30  validate_mesh is robust to a concurrent change of the file: if
\* another process deletes or rewrites the file at any point after the
\* initial existence check has passed, validate_mesh still returns a report
\* without raising, and file_size in the report is the size of the text
\* from which triangle_count was computed (or 0 when the file could not be
\* read).
\* ------------------------------------------------------------------------
C30_RobustToConcurrentChange ==
    (Validated /\ existed) =>
        /\ vresult = ReturnedReport
        /\ report.file_size =
               IF Contains(report.errors, ReadErrorMsg) THEN 0 ELSE st_size(vtext)

====
